---- MODULE Spec2Model ----
(***************************************************************************)
(* Model of TransactionInterceptor / TransactionParam /                    *)
(* handleNestException of kindagoose-transaction-decorator.service.ts.     *)
(* One request travels through the interceptor: the open phase             *)
(* (generateTransactions), the attach, the handler's result stream with    *)
(* the tap and catchError operators, and the asynchronous commit / abort / *)
(* end fan-outs against the data-store client.                             *)
(***************************************************************************)
EXTENDS Integers, Sequences, FiniteSets, TLC

\* ---------------------------------------------------------------- bounds
\* largest number of values the handler's result stream emits
MaxEmits == 2
\* largest number of distinct data-store calls that reject in one request
MaxFailures == 1

\* ------------------------------------------------------------- constants
NULL == 0

\* TransactionsTemplate.defaultSessionOptions / readOnlySessionOptions
defaultSessionOptions == "defaultSessionOptions"
readOnlySessionOptions == "readOnlySessionOptions"

\* the lists transactionsToBeGeneratedInInterceptor can be configured with:
\* the empty list of the field initialiser, a two-session list and a list
\* with a repeated name (nothing in the constructor rejects it)
TemplateConfigs ==
  { << >>,
    << [name |-> "default", sessionOptions |-> defaultSessionOptions, session |-> NULL],
       [name |-> "analytics", sessionOptions |-> readOnlySessionOptions, session |-> NULL] >>,
    << [name |-> "default", sessionOptions |-> defaultSessionOptions, session |-> NULL],
       [name |-> "default", sessionOptions |-> readOnlySessionOptions, session |-> NULL] >> }

\* names a handler passes to @TransactionParam(); "absent" stands for the
\* argument being left out
ParamNames == {"absent", "default", "analytics", "unknown"}

\* ---------------------------------------------------------------- errors
NoError == [cls |-> "none", id |-> "none", isAxiosError |-> FALSE,
            message |-> "none", cause |-> "none", description |-> "none"]

RawError(cls, id, ax, msg, cause) ==
  [cls |-> cls, id |-> id, isAxiosError |-> ax, message |-> msg,
   cause |-> cause, description |-> "none"]

\* error values: a MongooseError, an axios error, a TypeGuardError, a plain
\* Error, a MongooseError that also carries the axios mark
ErrorValues ==
  { RawError("MongooseError", "e1", FALSE, "m1", "c1"),
    RawError("Error", "e2", TRUE, "m2", "c2"),
    RawError("TypeGuardError", "e3", FALSE, "m3", "c3"),
    RawError("Error", "e4", FALSE, "m4", "c4"),
    RawError("MongooseError", "e5", TRUE, "m5", "c5") }

\* errors the handler of the modelled request raises
HandlerErrors == { e \in ErrorValues : e.id \in {"e1", "e4"} }

\* errors of the open phase
NoConnectionsError == RawError("Error", "e6", FALSE, "No connections found", "none")
StartSessionError == RawError("MongooseError", "e7", FALSE, "startSession failed", "none")
StartTransactionError == RawError("MongooseError", "e8", FALSE, "startTransaction failed", "none")

\* the exception TransactionParam throws
MisuseError ==
  RawError("InternalServerErrorException", "e9", FALSE,
           "TransactionParam can only be used with routes that have the TransactionInterceptor applied",
           "none")

Stack(e) == "stack:" \o e.id

\* a translator that tests the axios mark before the MongooseError class
handleNestException_axiosFirst(e) ==
  IF e.isAxiosError
  THEN [cls |-> "InternalServerErrorException", id |-> "new", isAxiosError |-> FALSE,
        message |-> e.message, cause |-> e.cause, description |-> Stack(e)]
  ELSE IF e.cls = "MongooseError"
  THEN [cls |-> "InternalServerErrorException", id |-> "new", isAxiosError |-> FALSE,
        message |-> e.message, cause |-> e.message, description |-> Stack(e)]
  ELSE IF e.cls = "TypeGuardError"
  THEN [cls |-> "BadRequestException", id |-> "new", isAxiosError |-> FALSE,
        message |-> e.message, cause |-> e.id, description |-> e.message]
  ELSE e

handleNestException(e) ==
  IF e.cls = "MongooseError"
  THEN [cls |-> "InternalServerErrorException", id |-> "new", isAxiosError |-> FALSE,
        message |-> e.message, cause |-> e.message, description |-> Stack(e)]
  ELSE IF e.isAxiosError
  THEN [cls |-> "InternalServerErrorException", id |-> "new", isAxiosError |-> FALSE,
        message |-> e.message, cause |-> e.cause, description |-> Stack(e)]
  ELSE IF e.cls = "TypeGuardError"
  THEN [cls |-> "BadRequestException", id |-> "new", isAxiosError |-> FALSE,
        message |-> e.message, cause |-> e.id, description |-> e.message]
  ELSE e

\* the string thrown by the catchError of the catch block of intercept
LockError(e) ==
  [cls |-> "string", id |-> "new", isAxiosError |-> FALSE,
   message |-> "Failed To Acquire Mongoose lock " \o e.cls \o ": " \o e.message,
   cause |-> e.id, description |-> "none"]

\* ----------------------------------------------------------------- state
VARIABLES
  NODE_ENV,                  \* process.env.NODE_ENV
  databaseGlobalConnection,  \* TRUE: a connection was injected
  intercepted,               \* the route has the interceptor applied
  instances,                 \* TransactionInstance objects: the configured ones, then the per-request ones
  configured,                \* number of objects of transactionsToBeGeneratedInInterceptor
  transactionsArray,         \* references (indexes of instances) collected by generateTransactions
  openIndex,                 \* position of the for loop of generateTransactions
  openError,                 \* the error caught by the catch block of intercept
  req,                       \* req.transactions, req.isUsingTransaction
  pc,                        \* position of the request
  path,                      \* which pipe the handler's stream runs through
  handlerInvocations,        \* number of next.handle() subscriptions
  paramResult,               \* what TransactionParam gave for the handler call about to start
  handlerError,              \* the error the handler raised
  emitted,                   \* values emitted by the handler's stream
  sessions,                  \* data-store client: per opened session, its options, whether a transaction was begun, the calls made on it
  tasks,                     \* asynchronous callbacks: tap callbacks and handleTransactionExceptions
  pending,                   \* unsettled promises of commit / abort / end calls
  failed,                    \* calls that rejected
  logged,                    \* number of logger.error calls
  callerValues,              \* values delivered to the caller
  callerEnd,                 \* "none", "complete" or "error"
  callerError                \* error delivered to the caller

config == << NODE_ENV, databaseGlobalConnection, intercepted, configured >>
openVars == << instances, transactionsArray, openIndex, openError >>
storeVars == << sessions, tasks, pending, failed, logged >>
callerVars == << callerValues, callerEnd, callerError >>
handlerVars == << handlerInvocations, paramResult, handlerError, emitted >>

vars == << config, openVars, req, pc, path, handlerVars, storeVars, callerVars >>

NoParam == [called |-> FALSE, name |-> "none", raised |-> FALSE, session |-> NULL]

Init ==
  /\ NODE_ENV \in {"test", "production"}
  /\ databaseGlobalConnection \in BOOLEAN
  /\ intercepted \in BOOLEAN
  /\ instances \in TemplateConfigs
  /\ configured = Len(instances)
  /\ transactionsArray = << >>
  /\ openIndex = 1
  /\ openError = NoError
  /\ req = [transactions |-> << >>, hasTransactions |-> FALSE, isUsingTransaction |-> FALSE]
  /\ pc = "intercept"
  /\ path = "none"
  /\ handlerInvocations = 0
  /\ paramResult = NoParam
  /\ handlerError = NoError
  /\ emitted = 0
  /\ sessions = << >>
  /\ tasks = << >>
  /\ pending = {}
  /\ failed = {}
  /\ logged = 0
  /\ callerValues = 0
  /\ callerEnd = "none"
  /\ callerError = NoError

\* ------------------------------------------------------------ open phase
\* a route that does not have the interceptor applied: the pipeline runs the
\* handler directly on request state the coordinator never touched
BareRoute ==
  /\ pc = "intercept"
  /\ ~intercepted
  /\ pc' = "params"
  /\ path' = "bare"
  /\ handlerInvocations' = handlerInvocations + 1
  /\ UNCHANGED << config, openVars, req, paramResult, handlerError, emitted,
                  storeVars, callerVars >>

\* generateTransactions, line 104: process.env.NODE_ENV === "test"
BypassMode_never == FALSE

BypassMode == NODE_ENV = "test"

\* generateTransactions, lines 104-106
GenerateBypass ==
  /\ pc = "intercept"
  /\ intercepted
  /\ BypassMode
  /\ pc' = "generated"
  /\ UNCHANGED << config, openVars, req, path, handlerVars, storeVars, callerVars >>

InOpenPhase ==
  /\ pc \in {"intercept", "open"}
  /\ intercepted
  /\ ~BypassMode
  /\ (configured = 0 \/ openIndex <= configured)

\* a single-session mode that opens with the read-only preset
OpenOptions_readOnly ==
  IF configured = 0 THEN readOnlySessionOptions ELSE instances[openIndex].sessionOptions

\* the options startSession is called with in the current iteration
OpenOptions ==
  IF configured = 0 THEN defaultSessionOptions ELSE instances[openIndex].sessionOptions

OpenFails(e) ==
  /\ openError' = e
  /\ pc' = "catch"
  /\ UNCHANGED << config, instances, transactionsArray, openIndex, req, path,
                  handlerVars, tasks, pending, failed, logged, callerVars >>

\* getConnection, lines 90-96: no connection was injected
GetConnectionThrows ==
  /\ InOpenPhase
  /\ ~databaseGlobalConnection
  /\ OpenFails(NoConnectionsError)
  /\ UNCHANGED sessions

\* startSession rejects: no session is opened
StartSessionRejects ==
  /\ InOpenPhase
  /\ databaseGlobalConnection
  /\ OpenFails(StartSessionError)
  /\ UNCHANGED sessions

\* startSession resolves, then session.startTransaction throws: the session
\* is open but is neither stored on the instance nor pushed
StartTransactionThrows ==
  /\ InOpenPhase
  /\ databaseGlobalConnection
  /\ sessions' = Append(sessions, [options |-> OpenOptions, begun |-> FALSE, log |-> << >>])
  /\ OpenFails(StartTransactionError)

\* one successful iteration: lines 109-117 (no configured list) or 120-123
\* an open phase that returns after the first session of a configured list
OpenSession_stopsAfterFirst ==
  /\ InOpenPhase
  /\ databaseGlobalConnection
  /\ LET sid == Len(sessions) + 1 IN
     /\ sessions' = Append(sessions, [options |-> OpenOptions, begun |-> TRUE, log |-> << >>])
     /\ IF configured = 0
        THEN /\ instances' = Append(instances,
                               [name |-> "default",
                                sessionOptions |-> defaultSessionOptions,
                                session |-> sid])
             /\ transactionsArray' = Append(transactionsArray, Len(instances) + 1)
             /\ openIndex' = openIndex
             /\ pc' = "generated"
        ELSE /\ instances' = [instances EXCEPT ![openIndex].session = sid]
             /\ transactionsArray' = Append(transactionsArray, openIndex)
             /\ openIndex' = openIndex + 1
             /\ pc' = "generated"
  /\ UNCHANGED << config, openError, req, path, handlerVars, tasks, pending,
                  failed, logged, callerVars >>

OpenSession ==
  /\ InOpenPhase
  /\ databaseGlobalConnection
  /\ LET sid == Len(sessions) + 1 IN
     /\ sessions' = Append(sessions, [options |-> OpenOptions, begun |-> TRUE, log |-> << >>])
     /\ IF configured = 0
        THEN /\ instances' = Append(instances,
                               [name |-> "default",
                                sessionOptions |-> defaultSessionOptions,
                                session |-> sid])
             /\ transactionsArray' = Append(transactionsArray, Len(instances) + 1)
             /\ openIndex' = openIndex
             /\ pc' = "generated"
        ELSE /\ instances' = [instances EXCEPT ![openIndex].session = sid]
             /\ transactionsArray' = Append(transactionsArray, openIndex)
             /\ openIndex' = openIndex + 1
             /\ pc' = IF openIndex = configured THEN "generated" ELSE "open"
  /\ UNCHANGED << config, openError, req, path, handlerVars, tasks, pending,
                  failed, logged, callerVars >>

\* an attach that stores the list but not the flag
Attach_withoutFlag ==
  /\ pc = "generated"
  /\ req' = [transactions |-> transactionsArray, hasTransactions |-> TRUE,
             isUsingTransaction |-> FALSE]
  /\ pc' = "params"
  /\ path' = "normal"
  /\ handlerInvocations' = handlerInvocations + 1
  /\ UNCHANGED << config, openVars, paramResult, handlerError, emitted,
                  storeVars, callerVars >>

\* intercept, lines 135-145: attach, then the pipeline subscribes to
\* next.handle().pipe(tap, catchError)
Attach ==
  /\ pc = "generated"
  /\ req' = [transactions |-> transactionsArray, hasTransactions |-> TRUE,
             isUsingTransaction |-> TRUE]
  /\ pc' = "params"
  /\ path' = "normal"
  /\ handlerInvocations' = handlerInvocations + 1
  /\ UNCHANGED << config, openVars, paramResult, handlerError, emitted,
                  storeVars, callerVars >>

\* a catch block that throws the lock string without running the handler
CatchOpenFailure_skipsHandler ==
  /\ pc = "catch"
  /\ pc' = "ended"
  /\ path' = "degraded"
  /\ callerEnd' = "error"
  /\ callerError' = LockError(openError)
  /\ UNCHANGED << config, openVars, req, handlerVars, storeVars, callerValues >>

\* intercept, lines 146-150: the catch block
CatchOpenFailure ==
  /\ pc = "catch"
  /\ pc' = "params"
  /\ path' = "degraded"
  /\ handlerInvocations' = handlerInvocations + 1
  /\ UNCHANGED << config, openVars, req, paramResult, handlerError, emitted,
                  storeVars, callerVars >>

\* --------------------------------------------------------- TransactionParam
\* a find that takes the first instance whatever its name
FindByName_first(refs, name) ==
  IF refs = << >> THEN NULL ELSE Head(refs)

\* Array.prototype.find over req.transactions: the first reference whose
\* instance has the name, or NULL
RECURSIVE FindByName(_, _)
FindByName(refs, name) ==
  IF refs = << >> THEN NULL
  ELSE IF instances[Head(refs)].name = name THEN Head(refs)
  ELSE FindByName(Tail(refs), name)

\* a factory that throws when no instance has the name
TransactionParam_throwsOnMissing(data) ==
  LET _data == IF data = "absent" THEN "default" ELSE data
      found == IF req.hasTransactions THEN FindByName(req.transactions, _data) ELSE NULL
  IN  IF req.isUsingTransaction # TRUE \/ found = NULL
      THEN [called |-> TRUE, name |-> data, raised |-> TRUE, session |-> NULL]
      ELSE [called |-> TRUE, name |-> data, raised |-> FALSE,
            session |-> instances[found].session]

\* the factory of createParamDecorator, lines 204-213
TransactionParam(data) ==
  LET _data == IF data = "absent" THEN "default" ELSE data
      found == IF req.hasTransactions THEN FindByName(req.transactions, _data) ELSE NULL
  IN  IF req.isUsingTransaction # TRUE
      THEN [called |-> TRUE, name |-> data, raised |-> TRUE, session |-> NULL]
      ELSE [called |-> TRUE, name |-> data, raised |-> FALSE,
            session |-> IF found = NULL THEN NULL ELSE instances[found].session]

\* the pipeline resolves the handler's parameters inside next.handle(): the
\* route declares a @TransactionParam(name) or none
ResolveParams ==
  /\ pc = "params"
  /\ \/ paramResult' = NoParam
     \/ \E data \in ParamNames : paramResult' = TransactionParam(data)
  /\ pc' = "handler"
  /\ UNCHANGED << config, openVars, req, path, handlerInvocations, handlerError,
                  emitted, storeVars, callerVars >>

\* ------------------------------------------------------- data-store calls
\* the session handles of the instances of a transactions array, in order
Handles(refs) == [i \in 1..Len(refs) |-> instances[refs[i]].session]

Range(f) == { f[i] : i \in DOMAIN f }

\* a fan-out that reaches the first instance only
FanOut_firstOnly(refs) ==
  IF refs = << >> THEN {} ELSE { Handles(refs)[1] }

\* transactions.map(transaction => transaction.session!.<op>()): the sessions
\* the operation is called on
FanOut(refs) == Range(Handles(refs))

\* the calls are recorded on the sessions and their promises join the
\* outstanding ones
CallAll(op, t, refs, outstanding) ==
  /\ sessions' = [sid \in DOMAIN sessions |->
                    IF sid \in FanOut(refs)
                    THEN [sessions[sid] EXCEPT !.log = Append(@, op)]
                    ELSE sessions[sid]]
  /\ pending' = outstanding \cup
                  { [task |-> t, op |-> op, session |-> sid] : sid \in FanOut(refs) }

\* Promise.allSettled(promiseMap) fulfils whatever the outcomes are, so the
\* .catch(... this.logger.error ...) attached to it has nothing to catch
AllSettledRejects(rejected) == FALSE

\* the calls of the current phase of a task that rejected
Rejected(t, fails) == { f \in fails : f[1] = tasks[t].phase }

\* --------------------------------------------------------- handler stream
\* a pipeline that hands the value on without running the tap callback
HandlerEmit_noCommit ==
  /\ pc = "handler"
  /\ ~paramResult.raised
  /\ emitted < MaxEmits
  /\ emitted' = emitted + 1
  /\ callerValues' = callerValues + 1
  /\ UNCHANGED << tasks, sessions, pending >>
  /\ paramResult' = NoParam
  /\ UNCHANGED << config, openVars, req, pc, path, handlerInvocations,
                  handlerError, failed, logged, callerEnd, callerError >>

\* the handler's stream emits a value: the tap callback starts (it issues
\* the commits and returns its promise, which tap drops), then the value
\* goes on to the subscriber
HandlerEmit ==
  /\ pc = "handler"
  /\ ~paramResult.raised
  /\ emitted < MaxEmits
  /\ emitted' = emitted + 1
  /\ callerValues' = callerValues + 1
  /\ IF path = "normal"
     THEN /\ tasks' = Append(tasks, [kind |-> "tap", phase |-> "commitTransaction"])
          /\ CallAll("commitTransaction", Len(tasks) + 1, transactionsArray, pending)
     ELSE UNCHANGED << tasks, sessions, pending >>
  /\ paramResult' = NoParam
  /\ UNCHANGED << config, openVars, req, pc, path, handlerInvocations,
                  handlerError, failed, logged, callerEnd, callerError >>

\* the handler's stream completes
HandlerComplete ==
  /\ pc = "handler"
  /\ ~paramResult.raised
  /\ pc' = "ended"
  /\ callerEnd' = "complete"
  /\ paramResult' = NoParam
  /\ UNCHANGED << config, openVars, req, path, handlerInvocations, handlerError,
                  emitted, storeVars, callerValues, callerError >>

\* the handler's stream errors with e: catchError of line 143 starts
\* handleTransactionExceptions, catchError of line 149 throws the lock
\* string, a bare route hands e to the pipeline
HandlerRaises(e) ==
  /\ pc = "handler"
  /\ pc' = "ended"
  /\ handlerError' = e
  /\ IF path = "normal"
     THEN /\ tasks' = Append(tasks, [kind |-> "catch", phase |-> "abortTransaction"])
          /\ CallAll("abortTransaction", Len(tasks) + 1, transactionsArray, pending)
          /\ UNCHANGED << callerEnd, callerError >>
     ELSE /\ callerEnd' = "error"
          /\ callerError' = IF path = "degraded" THEN LockError(openError) ELSE e
          /\ UNCHANGED << tasks, sessions, pending >>
  /\ paramResult' = NoParam
  /\ UNCHANGED << config, openVars, req, path, handlerInvocations,
                  emitted, failed, logged, callerValues >>

HandlerError ==
  /\ ~paramResult.raised
  /\ \E e \in HandlerErrors : HandlerRaises(e)

\* TransactionParam threw while the parameters were resolved
ParamError ==
  /\ paramResult.raised
  /\ HandlerRaises(MisuseError)

\* ------------------------------------------------------ asynchronous part
\* commitAllTransactions / handleTransactionExceptions resume after their
\* allSettled and go on to endAllSessions
ResumeToEnd(t, outstanding, fails) ==
  /\ logged' = IF AllSettledRejects(Rejected(t, fails)) THEN logged + 1 ELSE logged
  /\ tasks' = [tasks EXCEPT ![t].phase = "endSession"]
  /\ CallAll("endSession", t, transactionsArray, outstanding)
  /\ UNCHANGED << callerEnd, callerError >>

\* a handleTransactionExceptions that rethrows e as it came
ResumeAfterEnd_rethrowsRaw(t, outstanding, fails) ==
  /\ logged' = IF AllSettledRejects(Rejected(t, fails)) THEN logged + 1 ELSE logged
  /\ tasks' = [tasks EXCEPT ![t].phase = "done"]
  /\ pending' = outstanding
  /\ IF tasks[t].kind = "catch"
     THEN /\ callerEnd' = "error"
          /\ callerError' = handlerError
     ELSE UNCHANGED << callerEnd, callerError >>
  /\ UNCHANGED sessions

\* endAllSessions resumes after its allSettled: the tap callback is over,
\* handleTransactionExceptions throws handleNestException(e)
ResumeAfterEnd(t, outstanding, fails) ==
  /\ logged' = IF AllSettledRejects(Rejected(t, fails)) THEN logged + 1 ELSE logged
  /\ tasks' = [tasks EXCEPT ![t].phase = "done"]
  /\ pending' = outstanding
  /\ IF tasks[t].kind = "catch"
     THEN /\ callerEnd' = "error"
          /\ callerError' = handleNestException(handlerError)
     ELSE UNCHANGED << callerEnd, callerError >>
  /\ UNCHANGED sessions

ResumeTask(t, outstanding, fails) ==
  IF tasks[t].phase = "endSession"
  THEN ResumeAfterEnd(t, outstanding, fails)
  ELSE ResumeToEnd(t, outstanding, fails)

\* the data-store client settles one outstanding call; when it was the last
\* one its allSettled was waiting for, the awaiting callback resumes in the
\* microtasks of the same turn
Settle ==
  \E p \in pending : \E ok \in BOOLEAN :
    LET outstanding == pending \ {p}
        fails == IF ok THEN failed ELSE failed \cup { <<p.op, p.session>> }
    IN  /\ Cardinality(fails) <= MaxFailures
        /\ failed' = fails
        /\ IF \E q \in outstanding : q.task = p.task
           THEN /\ pending' = outstanding
                /\ UNCHANGED << sessions, tasks, logged, callerEnd, callerError >>
           ELSE ResumeTask(p.task, outstanding, fails)
        /\ UNCHANGED << config, openVars, req, pc, path, handlerVars, callerValues >>

\* an allSettled over no call at all (empty transactions array) fulfils at
\* once and the callback resumes
ResumeEmpty ==
  \E t \in DOMAIN tasks :
    /\ tasks[t].phase # "done"
    /\ ~ \E p \in pending : p.task = t
    /\ ResumeTask(t, pending, failed)
    /\ UNCHANGED << config, openVars, req, pc, path, handlerVars, failed, callerValues >>

\* ------------------------------------------------------------------ spec
Next ==
  \/ BareRoute
  \/ GenerateBypass
  \/ GetConnectionThrows
  \/ StartSessionRejects
  \/ StartTransactionThrows
  \/ OpenSession
  \/ Attach
  \/ CatchOpenFailure
  \/ ResolveParams
  \/ HandlerEmit
  \/ HandlerComplete
  \/ HandlerError
  \/ ParamError
  \/ Settle
  \/ ResumeEmpty

Spec == Init /\ [][Next]_vars

\* the request is over: the caller has its outcome and no callback is left
Finished ==
  /\ callerEnd # "none"
  /\ pending = {}
  /\ \A t \in DOMAIN tasks : tasks[t].phase = "done"

\* ---------------------------------------------------------------- claims
Count(log, op) == Cardinality({ i \in DOMAIN log : log[i] = op })

\* the sessions of the request's transactions array
ListedSessions == Range(Handles(transactionsArray))

\* C1: when the handler's stream completes without an error, whatever number
\* of values it emitted, every session of the request has received exactly
\* one commitTransaction and then exactly one endSession by the time the
\* request is over.
C1_SuccessCommitsOnceThenEndsOnce ==
  (Finished /\ path = "normal" /\ callerEnd = "complete")
    => \A sid \in ListedSessions :
         sessions[sid].log = << "commitTransaction", "endSession" >>

\* C2: when the handler's stream errors, also after having emitted values,
\* every session of the request has received exactly one abortTransaction and
\* then exactly one endSession, and no commitTransaction, by the time the
\* request is over.
C2_FailureAbortsOnceThenEndsOnce ==
  (Finished /\ path = "normal" /\ callerEnd = "error")
    => \A sid \in ListedSessions :
         sessions[sid].log = << "abortTransaction", "endSession" >>

\* a handler with a single outcome: its stream emits one value and completes,
\* or errors without having emitted
SingleOutcome ==
  \/ callerEnd = "complete" /\ emitted = 1
  \/ callerEnd = "error" /\ emitted = 0

\* C3: every session startSession opened has, by the time the request is
\* over, received a commitTransaction or an abortTransaction and exactly one
\* endSession, also when the open phase failed part-way (stated for handlers
\* with a single outcome).
C3_EveryOpenedSessionEnded ==
  (Finished /\ intercepted /\ SingleOutcome)
    => \A sid \in DOMAIN sessions :
         /\ Count(sessions[sid].log, "endSession") = 1
         /\ Count(sessions[sid].log, "commitTransaction")
              + Count(sessions[sid].log, "abortTransaction") = 1

\* C4 as claimed: whenever the handler raised e on a route with the
\* interceptor, the error the caller observes is handleNestException(e),
\* whether or not the open phase succeeded.
C4_CallerAlwaysSeesTranslated ==
  (intercepted /\ callerEnd = "error" /\ handlerError \in HandlerErrors)
    => callerError = handleNestException(handlerError)

\* C4 as amended: on the pipeline built after a successful open phase the
\* caller observes handleNestException(e) for the handler's error e, whatever
\* the outcomes of the abort and end-session calls; when the open phase
\* failed the caller
\* observes the lock string built from the open phase's error instead.
C4_TranslatedUnlessOpenFailed ==
  (intercepted /\ callerEnd = "error")
    => /\ handlerError # NoError
       /\ path = "normal" => callerError = handleNestException(handlerError)
       /\ path = "degraded" => callerError = LockError(openError)

C4_Witness ==
  /\ callerEnd = "error"
  /\ path = "normal"
  /\ handlerError.cls = "MongooseError"
  /\ callerError.cls = "InternalServerErrorException"
  /\ \E sid \in ListedSessions : << "abortTransaction", sid >> \in failed

\* C5: a rejecting commit, abort or end-session call never becomes the
\* caller's error (the caller errors only when the handler raised), every
\* fan-out reaches all sessions of the request (their call logs stay equal),
\* and once the request is over every commit or abort fan-out was followed by
\* an end-session fan-out.
C5_CleanupFailuresIsolated ==
  /\ callerEnd = "error" => handlerError # NoError
  /\ \A s1, s2 \in ListedSessions : sessions[s1].log = sessions[s2].log
  /\ (Finished /\ path = "normal")
       => \A sid \in ListedSessions :
            /\ Count(sessions[sid].log, "endSession") = Len(tasks)
            /\ Count(sessions[sid].log, "commitTransaction") = emitted

\* handler succeeded, one of two commits rejected, the other did not, both
\* sessions ended, the caller has its successful response
C5_Witness ==
  /\ Finished
  /\ callerEnd = "complete"
  /\ callerValues = 1
  /\ Cardinality(ListedSessions) = 2
  /\ \E s1, s2 \in ListedSessions :
       /\ s1 # s2
       /\ << "commitTransaction", s1 >> \in failed
       /\ << "commitTransaction", s2 >> \notin failed
       /\ sessions[s1].log = << "commitTransaction", "endSession" >>
       /\ sessions[s2].log = << "commitTransaction", "endSession" >>

\* C6: once the request is over, a rejected commit, abort or end-session
\* call has produced at least one logger.error.
C6_FailuresAreLogged ==
  (Finished /\ failed # {}) => logged >= 1

\* C7: with NODE_ENV = test, on a route with the interceptor: no session is
\* ever opened and no data-store call is made, the handler runs on request
\* state holding an empty list and isUsingTransaction = true, and
\* TransactionParam gives null for every name without raising.
C7_BypassOpensNothing ==
  (intercepted /\ NODE_ENV = "test")
    => /\ sessions = << >>
       /\ pending = {}
       /\ failed = {}
       /\ transactionsArray = << >>
       /\ pc \in {"params", "handler", "ended"}
            => /\ req.isUsingTransaction
               /\ req.hasTransactions
               /\ req.transactions = << >>
       /\ paramResult.called => (~paramResult.raised /\ paramResult.session = NULL)

C7_Witness ==
  /\ intercepted
  /\ NODE_ENV = "test"
  /\ pc = "handler"
  /\ paramResult.called
  /\ paramResult.name = "default"
  /\ paramResult.session = NULL

\* C8: TransactionParam raises exactly when the coordinator did not attach
\* its state to the request (the route has no interceptor, or the open phase
\* failed); once the state is attached it raises for no name.
C8_MisuseIffNotAttached ==
  paramResult.called => (paramResult.raised <=> path # "normal")

C8_Witness ==
  /\ paramResult.called
  /\ paramResult.raised
  /\ path = "bare"
  /\ sessions = << >>

\* the name TransactionParam looks up
LookedUp == IF paramResult.name = "absent" THEN "default" ELSE paramResult.name

\* C9: on attached request state TransactionParam(name) gives the handle of
\* an instance of the request's list whose name is the name looked up
\* ("default" when the name is left out), and null exactly when the list has
\* no instance of that name.
C9_LookupByName ==
  (paramResult.called /\ ~paramResult.raised)
    => LET named == { ref \in Range(req.transactions) : instances[ref].name = LookedUp }
       IN  /\ named = {} => paramResult.session = NULL
           /\ named # {} => /\ paramResult.session # NULL
                            /\ \E ref \in named : instances[ref].session = paramResult.session

C9_Witness ==
  /\ paramResult.called
  /\ paramResult.name = "analytics"
  /\ paramResult.session # NULL
  /\ \E ref \in Range(req.transactions) :
       /\ instances[ref].name = "default"
       /\ instances[ref].session # paramResult.session

\* C10: without a connection (and outside bypass mode) the coordinator opens
\* no session and makes no commit, abort or end call; the handler is invoked
\* once; its values and its completion reach the caller; the caller gets an
\* error only if the handler raised, and that error is the lock string
\* carrying the "No connections found" error.
C10_NoConnectionDegrades ==
  (intercepted /\ NODE_ENV # "test" /\ ~databaseGlobalConnection)
    => /\ sessions = << >>
       /\ tasks = << >>
       /\ pending = {}
       /\ pc \in {"params", "handler", "ended"} => handlerInvocations = 1
       /\ callerValues = emitted
       /\ callerEnd = "error"
            => /\ handlerError # NoError
               /\ callerError.cls = "string"
               /\ callerError.cause = NoConnectionsError.id
               /\ callerError.message =
                    "Failed To Acquire Mongoose lock Error: No connections found"

C10_Witness ==
  /\ intercepted
  /\ NODE_ENV # "test"
  /\ ~databaseGlobalConnection
  /\ callerValues = 1
  /\ callerEnd = "error"
  /\ handlerError \in HandlerErrors

\* the names of the instances of the list attached to the request, in order
AttachedNames == [i \in DOMAIN req.transactions |-> instances[req.transactions[i]].name]

Requests == {1, 2}

ConcurrentInit ==
  /\ NODE_ENV \in {"test", "production"}
  /\ databaseGlobalConnection \in BOOLEAN
  /\ intercepted = TRUE
  /\ instances \in TemplateConfigs
  /\ configured = Len(instances)
  /\ transactionsArray = [r \in Requests |-> << >>]
  /\ openIndex = [r \in Requests |-> 1]
  /\ openError = [r \in Requests |-> NoError]
  /\ req = [r \in Requests |->
              [transactions |-> << >>, hasTransactions |-> FALSE, isUsingTransaction |-> FALSE]]
  /\ pc = [r \in Requests |-> "intercept"]
  /\ path = [r \in Requests |-> "none"]
  /\ handlerInvocations = [r \in Requests |-> 0]
  /\ paramResult = NoParam
  /\ handlerError = [r \in Requests |-> NoError]
  /\ emitted = [r \in Requests |-> 0]
  /\ sessions = << >>
  /\ tasks = [r \in Requests |-> << >>]
  /\ pending = {}
  /\ failed = {}
  /\ logged = 0
  /\ callerValues = [r \in Requests |-> 0]
  /\ callerEnd = [r \in Requests |-> "none"]
  /\ callerError = [r \in Requests |-> NoError]

\* variables no step of SpecConcurrent changes
concurrentFixed == << config, paramResult, pending, failed, logged >>

\* generateTransactions, lines 104-106
ConcurrentBypass(r) ==
  /\ pc[r] = "intercept"
  /\ BypassMode
  /\ pc' = [pc EXCEPT ![r] = "generated"]
  /\ UNCHANGED << concurrentFixed, openVars, req, path, handlerInvocations,
                  handlerError, emitted, sessions, tasks, callerVars >>

ConcurrentInOpenPhase(r) ==
  /\ pc[r] \in {"intercept", "open"}
  /\ ~BypassMode
  /\ (configured = 0 \/ openIndex[r] <= configured)

ConcurrentOpenOptions(r) ==
  IF configured = 0 THEN defaultSessionOptions ELSE instances[openIndex[r]].sessionOptions

\* the open phase of request r fails: getConnection throws, startSession
\* rejects, or startTransaction throws on the session just opened
ConcurrentOpenFails(r) ==
  /\ ConcurrentInOpenPhase(r)
  /\ \/ /\ ~databaseGlobalConnection
        /\ openError' = [openError EXCEPT ![r] = NoConnectionsError]
        /\ UNCHANGED sessions
     \/ /\ databaseGlobalConnection
        /\ openError' = [openError EXCEPT ![r] = StartSessionError]
        /\ UNCHANGED sessions
     \/ /\ databaseGlobalConnection
        /\ openError' = [openError EXCEPT ![r] = StartTransactionError]
        /\ sessions' = Append(sessions, [options |-> ConcurrentOpenOptions(r), begun |-> FALSE,
                                         log |-> {}, owner |-> r])
  /\ pc' = [pc EXCEPT ![r] = "catch"]
  /\ UNCHANGED << concurrentFixed, instances, transactionsArray, openIndex, req, path,
                  handlerInvocations, handlerError, emitted, tasks, callerVars >>

\* one successful iteration of request r: lines 109-117 (a fresh instance
\* object) or 120-123 (the session is stored on the configured object)
ConcurrentOpenSession(r) ==
  /\ ConcurrentInOpenPhase(r)
  /\ databaseGlobalConnection
  /\ LET sid == Len(sessions) + 1 IN
     /\ sessions' = Append(sessions, [options |-> ConcurrentOpenOptions(r), begun |-> TRUE,
                                      log |-> {}, owner |-> r])
     /\ IF configured = 0
        THEN /\ instances' = Append(instances,
                               [name |-> "default",
                                sessionOptions |-> defaultSessionOptions,
                                session |-> sid])
             /\ transactionsArray' =
                  [transactionsArray EXCEPT ![r] = Append(@, Len(instances) + 1)]
             /\ openIndex' = openIndex
             /\ pc' = [pc EXCEPT ![r] = "generated"]
        ELSE /\ instances' = [instances EXCEPT ![openIndex[r]].session = sid]
             /\ transactionsArray' =
                  [transactionsArray EXCEPT ![r] = Append(@, openIndex[r])]
             /\ openIndex' = [openIndex EXCEPT ![r] = @ + 1]
             /\ pc' = [pc EXCEPT ![r] = IF openIndex[r] = configured THEN "generated" ELSE "open"]
  /\ UNCHANGED << concurrentFixed, openError, req, path, handlerInvocations,
                  handlerError, emitted, tasks, callerVars >>

\* intercept, lines 135-145
ConcurrentAttach(r) ==
  /\ pc[r] = "generated"
  /\ req' = [req EXCEPT ![r] = [transactions |-> transactionsArray[r],
                                hasTransactions |-> TRUE, isUsingTransaction |-> TRUE]]
  /\ pc' = [pc EXCEPT ![r] = "handler"]
  /\ path' = [path EXCEPT ![r] = "normal"]
  /\ handlerInvocations' = [handlerInvocations EXCEPT ![r] = @ + 1]
  /\ UNCHANGED << concurrentFixed, openVars, handlerError, emitted, sessions, tasks,
                  callerVars >>

\* intercept, lines 146-150
ConcurrentCatch(r) ==
  /\ pc[r] = "catch"
  /\ pc' = [pc EXCEPT ![r] = "handler"]
  /\ path' = [path EXCEPT ![r] = "degraded"]
  /\ handlerInvocations' = [handlerInvocations EXCEPT ![r] = @ + 1]
  /\ UNCHANGED << concurrentFixed, openVars, req, handlerError, emitted, sessions, tasks,
                  callerVars >>

\* request r calls op on the handle each instance of its array holds now
ConcurrentCallAll(op, r) ==
  sessions' = [sid \in DOMAIN sessions |->
                 IF sid \in FanOut(transactionsArray[r])
                 THEN [sessions[sid] EXCEPT !.log = @ \cup { [op |-> op, by |-> r] }]
                 ELSE sessions[sid]]

\* the handler of request r returns its value, which its stream emits (tap
\* callback, line 139); the handlers of SpecConcurrent emit at most once
ConcurrentEmit(r) ==
  /\ pc[r] = "handler"
  /\ emitted[r] = 0
  /\ emitted' = [emitted EXCEPT ![r] = @ + 1]
  /\ callerValues' = [callerValues EXCEPT ![r] = @ + 1]
  /\ IF path[r] = "normal"
     THEN /\ tasks' = [tasks EXCEPT ![r] =
                         Append(@, [kind |-> "tap", phase |-> "commitTransaction"])]
          /\ ConcurrentCallAll("commitTransaction", r)
     ELSE UNCHANGED << tasks, sessions >>
  /\ UNCHANGED << concurrentFixed, openVars, req, pc, path, handlerInvocations,
                  handlerError, callerEnd, callerError >>

\* the handler's stream of request r completes
ConcurrentComplete(r) ==
  /\ pc[r] = "handler"
  /\ pc' = [pc EXCEPT ![r] = "ended"]
  /\ callerEnd' = [callerEnd EXCEPT ![r] = "complete"]
  /\ UNCHANGED << concurrentFixed, openVars, req, path, handlerInvocations, handlerError,
                  emitted, sessions, tasks, callerValues, callerError >>

\* the handler's stream of request r errors (catchError, lines 143 and 149)
ConcurrentRaise(r) ==
  /\ pc[r] = "handler"
  /\ pc' = [pc EXCEPT ![r] = "ended"]
  /\ \E e \in HandlerErrors :
       /\ handlerError' = [handlerError EXCEPT ![r] = e]
       /\ IF path[r] = "normal"
          THEN /\ tasks' = [tasks EXCEPT ![r] =
                             Append(@, [kind |-> "catch", phase |-> "abortTransaction"])]
               /\ ConcurrentCallAll("abortTransaction", r)
               /\ UNCHANGED << callerEnd, callerError >>
          ELSE /\ callerEnd' = [callerEnd EXCEPT ![r] = "error"]
               /\ callerError' = [callerError EXCEPT ![r] = LockError(openError[r])]
               /\ UNCHANGED << tasks, sessions >>
  /\ UNCHANGED << concurrentFixed, openVars, req, path, handlerInvocations, emitted,
                  callerValues >>

\* the allSettled a callback of request r waits for fulfils (whatever the
\* outcomes of its calls): the callback goes on to endAllSessions, or is over
ConcurrentResume(r) ==
  \E t \in DOMAIN tasks[r] :
    /\ tasks[r][t].phase # "done"
    /\ IF tasks[r][t].phase = "endSession"
       THEN /\ tasks' = [tasks EXCEPT ![r][t].phase = "done"]
            /\ UNCHANGED sessions
            /\ IF tasks[r][t].kind = "catch"
               THEN /\ callerEnd' = [callerEnd EXCEPT ![r] = "error"]
                    /\ callerError' = [callerError EXCEPT ![r] =
                                         handleNestException(handlerError[r])]
               ELSE UNCHANGED << callerEnd, callerError >>
       ELSE /\ tasks' = [tasks EXCEPT ![r][t].phase = "endSession"]
            /\ ConcurrentCallAll("endSession", r)
            /\ UNCHANGED << callerEnd, callerError >>
    /\ UNCHANGED << concurrentFixed, openVars, req, pc, path, handlerInvocations,
                    handlerError, emitted, callerValues >>

ConcurrentNext ==
  \/ \E r \in Requests : ConcurrentBypass(r)
  \/ \E r \in Requests : ConcurrentOpenFails(r)
  \/ \E r \in Requests : ConcurrentOpenSession(r)
  \/ \E r \in Requests : ConcurrentAttach(r)
  \/ \E r \in Requests : ConcurrentCatch(r)
  \/ \E r \in Requests : ConcurrentEmit(r)
  \/ \E r \in Requests : ConcurrentComplete(r)
  \/ \E r \in Requests : ConcurrentRaise(r)
  \/ \E r \in Requests : ConcurrentResume(r)

SpecConcurrent == ConcurrentInit /\ [][ConcurrentNext]_vars

HandleError == RawError("Error", "e10", FALSE, "handle failed", "none")

\* intercept, lines 135-138 and 146: the state is attached, next.handle()
\* throws inside the try block, control passes to the catch block
HandleThrows ==
  /\ pc = "generated"
  /\ req' = [transactions |-> transactionsArray, hasTransactions |-> TRUE,
             isUsingTransaction |-> TRUE]
  /\ handlerInvocations' = handlerInvocations + 1
  /\ openError' = HandleError
  /\ pc' = "catch"
  /\ UNCHANGED << config, instances, transactionsArray, openIndex, path, paramResult,
                  handlerError, emitted, storeVars, callerVars >>

\* intercept, lines 147-149: next.handle() throws inside the catch block,
\* the promise intercept returned rejects
CatchHandleThrows ==
  /\ pc = "catch"
  /\ handlerInvocations' = handlerInvocations + 1
  /\ pc' = "ended"
  /\ path' = "degraded"
  /\ callerEnd' = "error"
  /\ callerError' = HandleError
  /\ UNCHANGED << config, openVars, req, paramResult, handlerError, emitted,
                  storeVars, callerValues >>

HandleThrowsNext ==
  \/ Next
  \/ HandleThrows
  \/ CatchHandleThrows

SpecHandleThrows == Init /\ [][HandleThrowsNext]_vars

\* C13: on a route with the interceptor, once intercept has returned, the
\* wrapped handler has been invoked exactly once, also when an exception was
\* thrown inside the try block after the sessions were opened.
C13_HandlerInvokedOnce ==
  (intercepted /\ pc \in {"params", "handler", "ended"}) => handlerInvocations = 1

\* C14 as claimed: on a route with the interceptor, whenever the handler has
\* been invoked the request holds the session list and isUsingTransaction =
\* true.
C14_HandlerOnlyOnAttachedState ==
  (intercepted /\ handlerInvocations >= 1)
    => (req.isUsingTransaction /\ req.hasTransactions)

\* C14 as amended: whenever the handler has been invoked after a successful
\* open phase (bypass mode included) the request holds the session list
\* generateTransactions returned and isUsingTransaction = true; when
\* generateTransactions failed, the handler is invoked on a request that
\* holds neither.
C14_AttachedUnlessOpenFailed ==
  (intercepted /\ handlerInvocations >= 1)
    => /\ path = "normal"
            => /\ req.isUsingTransaction
               /\ req.hasTransactions
               /\ req.transactions = transactionsArray
       /\ (path = "degraded" /\ openError # HandleError)
            => (~req.isUsingTransaction /\ ~req.hasTransactions)

C14_Witness ==
  /\ intercepted
  /\ pc = "handler"
  /\ path = "normal"
  /\ handlerInvocations = 1
  /\ req.isUsingTransaction
  /\ Len(req.transactions) = 2

\* the number of sessions one request opens: one per configured instance,
\* or the single default one
SessionsToOpen == IF configured = 0 THEN 1 ELSE configured

EndIssued ==
  \E sid \in DOMAIN sessions :
    Count(sessions'[sid].log, "endSession") > Count(sessions[sid].log, "endSession")

\* C16: whenever an endSession call is issued on a session of the request, no
\* commitTransaction or abortTransaction call of the request is still
\* unsettled.
C16_EndAfterDecisionSettled ==
  [][EndIssued => \A p \in pending' : p.op = "endSession"]_vars

\* ------------------------------------------- handleNestException on its own
\* values a handler can throw: objects of four classes with or without the
\* axios mark, and the non-objects null, undefined and a string
TranslateInputs ==
  { RawError(cls, id, ax, msg, cause) :
      cls \in {"MongooseError", "Error", "TypeGuardError", "HttpException"},
      id \in {"e1", "e2"}, ax \in BOOLEAN,
      msg \in {"m1", "m2"}, cause \in {"m1", "undefined"} }
  \cup { RawError(cls, cls, FALSE, "undefined", "undefined") :
           cls \in {"null", "undefined", "string"} }

\* reading a property of null or undefined throws a TypeError
ReadThrows(e) == e.cls \in {"null", "undefined"}

\* handleNestException, lines 179-198: instanceof and isAxiosError accept any
\* value; e.message, e.stack and e.cause are read inside the first three
\* branches only
handleNestExceptionThrows(e) ==
  IF e.cls = "MongooseError" THEN ReadThrows(e)
  ELSE IF e.isAxiosError THEN ReadThrows(e)
  ELSE IF e.cls = "TypeGuardError" THEN ReadThrows(e)
  ELSE FALSE

TranslateInit ==
  /\ NODE_ENV = "production"
  /\ databaseGlobalConnection = TRUE
  /\ intercepted = TRUE
  /\ instances = << >>
  /\ configured = 0
  /\ transactionsArray = << >>
  /\ openIndex = 1
  /\ openError = NoError
  /\ req = [transactions |-> << >>, hasTransactions |-> FALSE, isUsingTransaction |-> FALSE]
  /\ pc = "translate"
  /\ path = "none"
  /\ handlerInvocations = 0
  /\ paramResult = NoParam
  /\ handlerError \in TranslateInputs
  /\ emitted = 0
  /\ sessions = << >>
  /\ tasks = << >>
  /\ pending = {}
  /\ failed = {}
  /\ logged = 0
  /\ callerValues = 0
  /\ callerEnd = "none"
  /\ callerError = NoError

\* handleNestException(e) is called on the input, and then a second time on
\* the same value
Translate ==
  /\ pc \in {"translate", "translated"}
  /\ pc' = IF pc = "translate" THEN "translated" ELSE "retranslated"
  /\ IF handleNestExceptionThrows(handlerError)
     THEN /\ callerEnd' = "thrown"
          /\ callerError' = NoError
     ELSE /\ callerEnd' = "returned"
          /\ callerError' = handleNestException(handlerError)
  /\ UNCHANGED << config, openVars, req, path, handlerVars, storeVars, callerValues >>

TranslateNext == Translate

SpecTranslate == TranslateInit /\ [][TranslateNext]_vars

\* what the rules give for the input e and the result r
FirstMatchingRule(e, r) ==
  /\ e.cls = "MongooseError"
       => /\ r.cls = "InternalServerErrorException"
          /\ r.message = e.message
          /\ r.cause = e.message
  /\ (e.cls # "MongooseError" /\ e.isAxiosError)
       => /\ r.cls = "InternalServerErrorException"
          /\ r.message = e.message
          /\ r.cause = e.cause
  /\ (e.cls # "MongooseError" /\ ~e.isAxiosError /\ e.cls = "TypeGuardError")
       => /\ r.cls = "BadRequestException"
          /\ r.message = e.message
          /\ r.description = e.message
  /\ (e.cls # "MongooseError" /\ ~e.isAxiosError /\ e.cls # "TypeGuardError")
       => r = e

\* C17: every call of handleNestException returns (never throws), its result
\* is the one of the first matching rule in the order MongooseError, axios
\* error, TypeGuardError, anything else (returned unchanged), and a second
\* call on the same value gives the same result as the first.
C17_TranslateTotalDeterministic ==
  [][ pc' # "translate"
        => /\ callerEnd' = "returned"
           /\ FirstMatchingRule(handlerError', callerError')
           /\ pc = "translated" => callerError' = callerError ]_vars

C17_Witness ==
  /\ pc = "retranslated"
  /\ handlerError.cls = "MongooseError"
  /\ handlerError.isAxiosError
  /\ handlerError.message # handlerError.cause
  /\ callerEnd = "returned"
  /\ callerError.cls = "InternalServerErrorException"
  /\ callerError.cause = handlerError.message

\* C18: outside bypass mode, with an empty configured list and a connection,
\* a request whose open phase went through has a list of exactly one
\* instance, named "default", with the default read-write options and a
\* handle of a session opened with those options on which a transaction was
\* begun; TransactionParam without a name or with "default" returns that
\* handle.
C18_DefaultSingleSession ==
  (intercepted /\ NODE_ENV # "test" /\ databaseGlobalConnection
     /\ configured = 0 /\ path = "normal")
    => /\ Len(req.transactions) = 1
       /\ Len(sessions) = 1
       /\ LET inst == instances[req.transactions[1]]
          IN  /\ inst.name = "default"
              /\ inst.sessionOptions = defaultSessionOptions
              /\ inst.session # NULL
              /\ inst.session \in DOMAIN sessions
              /\ sessions[inst.session].options = defaultSessionOptions
              /\ sessions[inst.session].begun
              /\ TransactionParam("absent").session = inst.session
              /\ TransactionParam("default").session = inst.session
              /\ ~TransactionParam("absent").raised
              /\ (paramResult.called /\ paramResult.name \in {"absent", "default"})
                   => (~paramResult.raised /\ paramResult.session = inst.session)

C18_Witness ==
  /\ intercepted
  /\ NODE_ENV # "test"
  /\ configured = 0
  /\ path = "normal"
  /\ pc = "handler"
  /\ paramResult.called
  /\ paramResult.name = "absent"
  /\ paramResult.session # NULL
  /\ Len(req.transactions) = 1

\* C19: on the pipeline built after a successful open phase, every value the
\* caller holds was preceded by a commitTransaction call on every session of
\* the request (one fan-out per delivered value); the delivery does not wait
\* for these calls to settle.
C19_DeliveredAfterCommitIssued ==
  (intercepted /\ path = "normal" /\ callerValues >= 1)
    => /\ \A sid \in ListedSessions :
            Count(sessions[sid].log, "commitTransaction") >= callerValues
       /\ Len(tasks) >= callerValues
       /\ \A t \in 1..callerValues : tasks[t].kind = "tap"

\* the caller holds the complete successful response while one commit has
\* already failed and another is still outstanding
C19_Witness ==
  /\ path = "normal"
  /\ callerValues = 1
  /\ callerEnd = "complete"
  /\ \E p \in pending : p.op = "commitTransaction"
  /\ \E f \in failed : f[1] = "commitTransaction"

====
